---- MODULE Spec2Model ----
(***************************************************************************)
(* SequenceTagger (opennmt/models/sequence_tagger.py).                     *)
(*                                                                         *)
(* The tagger is a graph-construction shim over TensorFlow 1.x: _build and *)
(* _compute_loss declare operations on symbolic tensors, a later session   *)
(* run evaluates them on a batch, and print_prediction renders one fetched *)
(* prediction.  The model has the same two levels:                         *)
(*   - Spec      : the object's life cycle; tensors are expression nodes;  *)
(*   - SpecRun   : a session run that evaluates the graphs _build and      *)
(*                 _compute_loss declared on concrete batches;             *)
(*   - SpecPrint : print_prediction on every fetched prediction and        *)
(*                 stream within the bounds.                               *)
(***************************************************************************)
EXTENDS Integers, Sequences, FiniteSets, TLC

\* ------------------------------------------------------------------ bounds
\* Largest batch fed to a session run.
MaxBatch == 2
\* Longest sequence of a batch (its padded time dimension).
MaxTime == 2
\* Longest labels array handed to print_prediction.
MaxLabels == 2
\* Log-likelihood values of the CRF primitive range over -MaxLL..0.
MaxLL == 2

VARIABLES
  self,               \* the tagger's instance dictionary (attribute -> value)
  inputter_metadata,  \* the inputter's state: the metadata it was initialized with
  variables,          \* the variables the tagger has created in the current
                      \* TensorFlow graph (those of the inputter and of the
                      \* encoder are theirs)
  transitions_used,   \* every transition parameter a CRF primitive was
                      \* given, with the label-axis size of its logits
  call,               \* the last completed call: operation, arguments, outcome
  feed,               \* SpecRun: the batch fed to the session run
  fetched             \* SpecRun: what the session run returned

vars == <<self, inputter_metadata, variables, transitions_used, call, feed,
          fetched>>

\* ------------------------------------------------------- Python/TF values
\* Python's None.
None == [type |-> "NoneType"]

\* tf.estimator.ModeKeys
TRAIN == "train"
EVAL == "eval"
PREDICT == "infer"
ModeKeys == {TRAIN, EVAL, PREDICT}

\* A symbolic tensor: the operation that produces it, its input tensors, a
\* string attribute and integer attributes.
Node(op, args, name, dims) ==
  [op |-> op, args |-> args, name |-> name, dims |-> dims]

\* A Python constant captured by an operation.
Const(s) == Node("const", <<>>, s, <<>>)

\* The tensors the framework hands to _build and _compute_loss.
FeaturesTensor == Node("features", <<>>, "", <<>>)
LabelsTensor == Node("labels", <<>>, "", <<>>)

\* obj.attr = v
SetAttr(obj, attr, v) ==
  [a \in (DOMAIN obj) \cup {attr} |-> IF a = attr THEN v ELSE obj[a]]

\* ------------------------------------------------------- the environment
\* The label vocabulary files on disk: path -> lines.  The path "missing" is
\* absent.
FileSystem ==
  [tags2 |-> <<"O", "B">>, tags3 |-> <<"O", "B", "I">>]

Paths == {"tags2", "tags3", "missing"}

\* The data-configuration key the tagger is constructed with.
Keys == {"labels_vocabulary"}

\* The metadata mappings handed to _initialize.
Metadatas ==
  {[labels_vocabulary |-> p] : p \in Paths}
    \cup {[tags_vocabulary |-> "tags2"]}

\* The encoders a tagger may be constructed with: one that keeps the
\* sequence length and one that halves it (a pyramidal encoder).
Encoders == {"unidirectional", "pyramidal"}

Config == [model_dir |-> "run"]
Params == [optimizer |-> "sgd"]

\* opennmt.utils.misc.count_lines: the number of lines of the file; an absent
\* file raises.
count_lines(filename) ==
  IF filename \in DOMAIN FileSystem
  THEN [status |-> "ok", value |-> Len(FileSystem[filename])]
  ELSE [status |-> "IOError"]

\* tf.get_variable(name, shape) in a scope that does not reuse (the default;
\* the source never sets reuse): creates the variable, and raises when the
\* graph already holds one of that name.
get_variable(store, name, shape) ==
  IF \E v \in store : v.name = name
  THEN [status |-> "ValueError", store |-> store]
  ELSE [status |-> "ok",
        store |-> store \cup {[name |-> name, shape |-> shape]},
        var |-> Node("variable", <<>>, name, shape)]

\* The static size of a tensor's last axis.
LastDim(t) == t.dims[Len(t.dims)]

\* ---------------------------------------------------------- the tagger
\* __init__
SequenceTagger(inputter, encoder, labels_vocabulary_file_key, crf_decoding) ==
  [encoder |-> encoder,
   inputter |-> inputter,
   labels_vocabulary_file_key |-> labels_vocabulary_file_key,
   crf_decoding |-> crf_decoding]

\* _initialize with a fault: a failure leaves a default count of 0 behind.
_initialize_NumLabelsDefault(obj, metadata) ==
  LET key == obj.labels_vocabulary_file_key
  IN IF key \notin DOMAIN metadata
     THEN [status |-> "KeyError", self |-> SetAttr(obj, "num_labels", 0),
           inputter_metadata |-> <<metadata>>]
     ELSE LET obj1 == SetAttr(obj, "labels_vocabulary_file", metadata[key])
              n == count_lines(obj1.labels_vocabulary_file)
          IN IF n.status # "ok"
             THEN [status |-> n.status, self |-> SetAttr(obj1, "num_labels", 0),
                   inputter_metadata |-> <<metadata>>]
             ELSE [status |-> "ok",
                   self |-> SetAttr(obj1, "num_labels", n.value),
                   inputter_metadata |-> <<metadata>>]

\* _initialize: the object and the inputter's state after the call.  The
\* inputter is initialized first; a missing key or an absent file raises
\* from the statement it occurs in and the later assignments do not run.
_initialize(obj, metadata) ==
  LET key == obj.labels_vocabulary_file_key
  IN IF key \notin DOMAIN metadata
     THEN [status |-> "KeyError", self |-> obj,
           inputter_metadata |-> <<metadata>>]
     ELSE LET obj1 == SetAttr(obj, "labels_vocabulary_file", metadata[key])
              n == count_lines(obj1.labels_vocabulary_file)
          IN IF n.status # "ok"
             THEN [status |-> n.status, self |-> obj1,
                   inputter_metadata |-> <<metadata>>]
             ELSE [status |-> "ok",
                   self |-> SetAttr(obj1, "num_labels", n.value),
                   inputter_metadata |-> <<metadata>>]

\* _get_serving_input_receiver
_get_serving_input_receiver(obj) ==
  Node("inputter.get_serving_input_receiver", <<>>, obj.inputter, <<>>)

\* _get_features_length
_get_features_length(obj, features) ==
  Node("inputter.get_length", <<features>>, obj.inputter, <<>>)

\* _get_labels_length
_get_labels_length(labels) == None

\* _get_features_builder
_get_features_builder(obj, features_file) ==
  [status |-> "ok",
   self |-> obj,
   ret |-> [dataset |-> Node("inputter.make_dataset", <<Const(features_file)>>,
                            obj.inputter, <<>>),
            process_fn |-> Node("inputter.process", <<>>, obj.inputter, <<>>),
            padded_shapes_fn |-> Node("inputter.padded_shapes", <<>>,
                                     obj.inputter, <<>>)]]

\* _get_labels_builder with a fault: it stores a new label count on the object.
_get_labels_builder_Recount(obj, labels_file) ==
  IF ~ {"labels_vocabulary_file", "num_labels"} \subseteq DOMAIN obj
  THEN [status |-> "AttributeError", self |-> obj]
  ELSE [status |-> "ok",
        self |-> SetAttr(obj, "num_labels", obj.num_labels + 1),
        ret |-> [dataset |-> Node("TextLineDataset", <<Const(labels_file)>>, "", <<>>),
                 process_fn |-> Node("index_table.lookup",
                                     <<Node("string_split.values", <<>>, "", <<>>)>>,
                                     obj.labels_vocabulary_file,
                                     <<obj.num_labels + 1>>),
                 padded_shapes_fn |-> Node("padded_shapes", <<>>, "[None]", <<>>)]]

\* _get_labels_builder
_get_labels_builder(obj, labels_file) ==
  IF ~ {"labels_vocabulary_file", "num_labels"} \subseteq DOMAIN obj
  THEN [status |-> "AttributeError", self |-> obj]
  ELSE [status |-> "ok",
        self |-> obj,
        ret |-> [dataset |-> Node("TextLineDataset", <<Const(labels_file)>>, "", <<>>),
                 process_fn |-> Node("index_table.lookup",
                                     <<Node("string_split.values", <<>>, "", <<>>)>>,
                                     obj.labels_vocabulary_file,
                                     <<obj.num_labels>>),
                 padded_shapes_fn |-> Node("padded_shapes", <<>>, "[None]", <<>>)]]

\* ------------------------------------------------- graph operations used
\* The variable scope tf.layers.dense opens for an unnamed layer under
\* "generator".  Default names are made unique only within one entry of the
\* enclosing scope, and _build enters "generator" anew on each call: every
\* _build asks for this one scope.
DenseScope == "generator/dense"

\* The tensor a projection layer returns.
DenseOutputs(inputs, scope, units) == Node("dense", <<inputs>>, scope, <<units>>)

\* tf.layers.dense(inputs, units) under variable scope "generator": the layer
\* creates its kernel, [depth, units], and its bias, [units], in the graph,
\* and raises when the graph already holds them.
dense(store, inputs, units) ==
  LET k == get_variable(store, DenseScope \o "/kernel",
                        <<LastDim(inputs), units>>)
      b == get_variable(k.store, DenseScope \o "/bias", <<units>>)
  IN IF k.status # "ok" THEN [status |-> k.status, store |-> store]
     ELSE IF b.status # "ok" THEN [status |-> b.status, store |-> k.store]
     ELSE [status |-> "ok", store |-> b.store,
           outputs |-> DenseOutputs(inputs, DenseScope, units)]
\* tf.nn.softmax (over the last axis)
softmax(x) == Node("softmax", <<x>>, "", <<>>)
\* tf.argmax(x, axis)
argmax(x, axis) == Node("argmax", <<x>>, "", <<axis>>)
\* tf.cast(x, dtype)
cast(x, dtype) == Node("cast", <<x>>, dtype, <<>>)
\* -x
neg(x) == Node("neg", <<x>>, "", <<>>)
\* tf.reduce_mean(x)
reduce_mean(x) == Node("reduce_mean", <<x>>, "", <<>>)

\* inputter.transform_data(features, mode, log_dir=...)
transform_data(obj, features, mode, log_dir) ==
  Node("inputter.transform_data", <<features, Const(mode), Const(log_dir)>>,
       obj.inputter, <<>>)

\* encoder.encode(inputs, sequence_length=length, mode=mode): the encoder's
\* outputs and its output sequence length (the state in between is unused).
\* The encoders here have outputs of depth 1.
encode(obj, inputs, length, mode) ==
  [outputs |-> Node("encoder.outputs", <<inputs, length, Const(mode)>>,
                    obj.encoder, <<1>>),
   sequence_length |-> Node("encoder.sequence_length",
                            <<inputs, length, Const(mode)>>, obj.encoder, <<>>)]

\* tf.contrib.crf.crf_decode(potentials, transition_params, sequence_length):
\* the decoded tags (the best score is dropped by the caller).
crf_decode(potentials, transition_params, sequence_length) ==
  Node("crf_decode.tags", <<potentials, transition_params, sequence_length>>,
       "", <<>>)

\* The name under which crf_log_likelihood creates its transition matrix
\* when the caller passes none.
CrfDefaultTransitionsName == "transitions"

\* tf.contrib.crf.crf_log_likelihood(inputs, tag_indices, sequence_lengths)
\* without transition_params: the primitive creates the matrix itself, of
\* shape [num_tags, num_tags] with num_tags the static last axis of inputs.
crf_log_likelihood(store, inputs, tag_indices, sequence_lengths) ==
  LET num_tags == LastDim(inputs)
      gv == get_variable(store, CrfDefaultTransitionsName, <<num_tags, num_tags>>)
  IN IF gv.status # "ok"
     THEN [status |-> gv.status, store |-> store, used |-> {}]
     ELSE [status |-> "ok",
           store |-> gv.store,
           used |-> {[by |-> "crf_log_likelihood",
                      name |-> CrfDefaultTransitionsName,
                      shape |-> <<num_tags, num_tags>>,
                      num_tags |-> num_tags]},
           log_likelihood |->
             Node("crf_log_likelihood",
                  <<inputs, tag_indices, sequence_lengths, gv.var>>, "", <<>>)]

\* tf.contrib.lookup.index_to_string_table_from_file(file, vocab_size).lookup(ids)
index_to_string_lookup(vocabulary_file, vocab_size, ids) ==
  Node("index_to_string_table.lookup", <<ids>>, vocabulary_file, <<vocab_size>>)

\* opennmt.utils.losses.masked_sequence_loss(logits, labels, length)
masked_sequence_loss(logits, labels, length) ==
  Node("masked_sequence_loss", <<logits, labels, length>>, "", <<>>)

\* ------------------------------------------------------------- _build
\* A fault: _build names its transition matrix differently from the loss.
TransitionsNameOther == "crf/transitions"

\* The name _build gives the transition matrix.
TransitionsName == "transitions"

\* A fault: a transition matrix that is not square in num_labels.
TransitionsShapeOffByOne(obj) == <<obj.num_labels, obj.num_labels + 1>>

\* The shape _build gives the transition matrix.
TransitionsShape(obj) == <<obj.num_labels, obj.num_labels>>

\* A fault: the arg-max taken over the time axis.
GreedyTagsOverTime(logits) == argmax(softmax(logits), 1)

\* Unstructured decoding: the arg-max over the label axis of the softmax.
GreedyTags(logits) == argmax(softmax(logits), 2)

\* A fault: the CRF branch taken whatever crf_decoding says.
DecodeAlwaysCrf(obj, store, logits, encoder_sequence_length) ==
  LET gv == get_variable(store, TransitionsName, TransitionsShape(obj))
  IN IF gv.status # "ok"
     THEN [status |-> gv.status, store |-> store, used |-> {}]
     ELSE [status |-> "ok",
           store |-> gv.store,
           used |-> {[by |-> "crf_decode", name |-> TransitionsName,
                      shape |-> TransitionsShape(obj),
                      num_tags |-> LastDim(logits)]},
           tags_id |-> cast(crf_decode(logits, gv.var, encoder_sequence_length),
                            "int64")]

\* The decoding branch of _build: the tag ids, the variable store after it and
\* the transition parameter it used.
Decode(obj, store, logits, encoder_sequence_length) ==
  IF obj.crf_decoding
  THEN LET gv == get_variable(store, TransitionsName, TransitionsShape(obj))
       IN IF gv.status # "ok"
          THEN [status |-> gv.status, store |-> store, used |-> {}]
          ELSE [status |-> "ok",
                store |-> gv.store,
                used |-> {[by |-> "crf_decode", name |-> TransitionsName,
                           shape |-> TransitionsShape(obj),
                           num_tags |-> LastDim(logits)]},
                tags_id |-> cast(crf_decode(logits, gv.var, encoder_sequence_length),
                                 "int64")]
  ELSE [status |-> "ok", store |-> store, used |-> {},
        tags_id |-> GreedyTags(logits)]

\* The predictions dictionary.
MakePredictions(obj, tags_id, encoder_sequence_length) ==
  [type |-> "dict",
   items |-> [length |-> encoder_sequence_length,
              labels |-> index_to_string_lookup(obj.labels_vocabulary_file,
                                                obj.num_labels, tags_id)]]

\* A fault: predictions built in every mode.
BuildPredictionsAnyMode(obj, store, mode, logits, encoder_sequence_length) ==
  LET d == Decode(obj, store, logits, encoder_sequence_length)
  IN IF d.status # "ok"
     THEN [status |-> d.status, store |-> store, used |-> {}]
     ELSE [status |-> "ok", store |-> d.store, used |-> d.used,
           predictions |-> MakePredictions(obj, d.tags_id, encoder_sequence_length)]

\* The mode switch of _build: predictions outside training, None in training.
BuildPredictions(obj, store, mode, logits, encoder_sequence_length) ==
  IF mode # TRAIN
  THEN LET d == Decode(obj, store, logits, encoder_sequence_length)
       IN IF d.status # "ok"
          THEN [status |-> d.status, store |-> store, used |-> {}]
          ELSE [status |-> "ok", store |-> d.store, used |-> d.used,
                predictions |-> MakePredictions(obj, d.tags_id,
                                                encoder_sequence_length)]
  ELSE [status |-> "ok", store |-> store, used |-> {}, predictions |-> None]

\* Lines 69-80 of _build: the encoder applied to the transformed features.
Encoded(obj, features, mode, config) ==
  encode(obj, transform_data(obj, features, mode, config.model_dir),
         _get_features_length(obj, features), mode)

\* _build: (logits, predictions), the object and the variable store after it.
\* self.num_labels is read before the projection layer is made; a graph that
\* holds a projection layer already makes the layer raise; the variables the
\* layer has created stay in the graph when a later statement raises.
_build(obj, store, features, labels, params, mode, config) ==
  LET enc == Encoded(obj, features, mode, config)
  IN IF "num_labels" \notin DOMAIN obj
     THEN [status |-> "AttributeError", self |-> obj, store |-> store, used |-> {}]
     ELSE LET g == dense(store, enc.outputs, obj.num_labels)
              p == BuildPredictions(obj, g.store, mode, g.outputs,
                                    enc.sequence_length)
          IN IF g.status # "ok"
             THEN [status |-> g.status, self |-> obj, store |-> g.store,
                   used |-> {}]
             ELSE IF p.status # "ok"
             THEN [status |-> p.status, self |-> obj, store |-> g.store,
                   used |-> {}]
             ELSE [status |-> "ok", self |-> obj, store |-> p.store,
                   used |-> p.used,
                   logits |-> g.outputs, predictions |-> p.predictions]

\* ------------------------------------------------------ _compute_loss
\* The names bound in the module and in _compute_loss's own scope.
ModuleGlobals ==
  {"print_function", "tf", "Model", "count_lines", "masked_sequence_loss",
   "SequenceTagger"}

\* Python's lookup of a free name: the function's locals, then the module's
\* globals (no builtin is called logits); an unbound name raises NameError.
ResolveName(name, locals) ==
  IF name \in DOMAIN locals
  THEN [status |-> "ok", value |-> locals[name]]
  ELSE IF name \in ModuleGlobals
       THEN [status |-> "ok", value |-> Const(name)]
       ELSE [status |-> "NameError"]

\* A fault: the mean of the log-likelihood itself.
CrfLossNotNegated(obj, store, labels, outputs, length) ==
  LET r == crf_log_likelihood(store, outputs, cast(labels, "int32"), length)
  IN IF r.status # "ok"
     THEN [status |-> r.status, store |-> store, used |-> {}]
     ELSE [status |-> "ok", store |-> r.store, used |-> r.used,
           loss |-> reduce_mean(r.log_likelihood)]

\* The CRF branch of _compute_loss.
CrfLoss(obj, store, labels, outputs, length) ==
  LET r == crf_log_likelihood(store, outputs, cast(labels, "int32"), length)
  IN IF r.status # "ok"
     THEN [status |-> r.status, store |-> store, used |-> {}]
     ELSE [status |-> "ok", store |-> r.store, used |-> r.used,
           loss |-> reduce_mean(neg(r.log_likelihood))]

\* The other branch: masked_sequence_loss(logits, labels, length), where
\* logits is a free name of the function.
MaskedLoss(obj, store, features, labels, outputs, length) ==
  LET locals == [self |-> obj, features |-> features, labels |-> labels,
                 outputs |-> outputs, length |-> length]
      logits == ResolveName("logits", locals)
  IN IF logits.status # "ok"
     THEN [status |-> logits.status, store |-> store, used |-> {}]
     ELSE [status |-> "ok", store |-> store, used |-> {},
           loss |-> masked_sequence_loss(logits.value, labels, length)]

_compute_loss(obj, store, features, labels, outputs) ==
  LET length == _get_features_length(obj, features)
      r == IF obj.crf_decoding
           THEN CrfLoss(obj, store, labels, outputs, length)
           ELSE MaskedLoss(obj, store, features, labels, outputs, length)
  IN IF r.status # "ok"
     THEN [status |-> r.status, self |-> obj, store |-> store, used |-> {}]
     ELSE [status |-> "ok", self |-> obj, store |-> r.store, used |-> r.used,
           loss |-> r.loss]

\* --------------------------------------------------- print_prediction
\* The byte strings a fetched labels array may hold (lines of a vocabulary
\* file, so none holds a line break): b"O", the UTF-8 encoding of U+00E9 (two
\* bytes) and a byte that no UTF-8 text contains.
ByteLabels == {<<79>>, <<195, 169>>, <<255>>}

\* The fetched predictions handed to print_prediction.
FetchedPredictions ==
  {[length |-> n, labels |-> ls] :
     n \in 0..MaxLabels,
     ls \in UNION {[1..k -> ByteLabels] : k \in 0..MaxLabels}}

\* The encodings of the text streams.
Encodings == {"utf-8", "ascii"}

\* A text stream: its encoding and the text written to it (code points).
TextStream(encoding, text) == [encoding |-> encoding, text |-> text]

\* The streams handed to print_prediction; each holds the line "x".
Streams == {TextStream(e, <<120, 10>>) : e \in Encodings}

\* sys.stdout: a text stream whose encoding is the environment's.
Stdouts == {TextStream(e, <<>>) : e \in Encodings}

\* The stream arguments of print_prediction with the sys.stdout of the call:
\* a stream, or None (the default) under either sys.stdout.
StreamArguments ==
  {[stream |-> f, stdout |-> TextStream("utf-8", <<>>)] : f \in Streams}
    \cup {[stream |-> None, stdout |-> o] : o \in Stdouts}

\* Whether text.encode(encoding) succeeds: ASCII holds the code points below
\* 128, UTF-8 all but the surrogates.
Encodable(text, encoding) ==
  IF encoding = "ascii"
  THEN \A i \in 1..Len(text) : text[i] < 128
  ELSE \A i \in 1..Len(text) : text[i] \notin 55296..57343

\* print(text, file=file): writes text and a line feed to file, to sys.stdout
\* when file is None.  A text stream encodes what it is given before it
\* writes any of it.
print(text, file, stdout) ==
  LET target == IF file = None THEN stdout ELSE file
  IN IF Encodable(text, target.encoding)
     THEN [status |-> "ok",
           written |-> TextStream(target.encoding,
                                  target.text \o text \o <<10>>)]
     ELSE [status |-> "UnicodeEncodeError", written |-> target]

\* seq[:stop]
SliceTo(seq, stop) ==
  LET n == Len(seq)
      hi == IF stop < 0
            THEN (IF n + stop < 0 THEN 0 ELSE n + stop)
            ELSE (IF stop > n THEN n ELSE stop)
  IN SubSeq(seq, 1, hi)

\* sep.join(parts) on byte strings
RECURSIVE BytesJoin(_, _)
BytesJoin(sep, parts) ==
  IF parts = <<>> THEN <<>>
  ELSE IF Len(parts) = 1 THEN parts[1]
  ELSE parts[1] \o sep \o BytesJoin(sep, Tail(parts))

\* bytes.decode("utf-8"): the code points, or failure on a malformed,
\* overlong, surrogate or out-of-range sequence.
RECURSIVE Utf8Decode(_)
Utf8Decode(bs) ==
  IF bs = <<>> THEN [ok |-> TRUE, text |-> <<>>]
  ELSE
    LET b == bs[1]
        n == Len(bs)
        width == IF b < 128 THEN 1
                 ELSE IF b \in 194..223 THEN 2
                 ELSE IF b \in 224..239 THEN 3
                 ELSE IF b \in 240..244 THEN 4
                 ELSE 0
        valid == /\ width > 0
                 /\ n >= width
                 /\ \A i \in 2..width : bs[i] \in 128..191
                 /\ (b = 224 => bs[2] >= 160)
                 /\ (b = 237 => bs[2] <= 159)
                 /\ (b = 240 => bs[2] >= 144)
                 /\ (b = 244 => bs[2] <= 143)
        cp == IF width = 1 THEN b
              ELSE IF width = 2 THEN (b - 192) * 64 + (bs[2] - 128)
              ELSE IF width = 3
                   THEN (b - 224) * 4096 + (bs[2] - 128) * 64 + (bs[3] - 128)
              ELSE (b - 240) * 262144 + (bs[2] - 128) * 4096
                     + (bs[3] - 128) * 64 + (bs[4] - 128)
    IN IF ~ valid THEN [ok |-> FALSE, text |-> <<>>]
       ELSE LET rest == Utf8Decode(SubSeq(bs, width + 1, n))
            IN IF ~ rest.ok THEN rest
               ELSE [ok |-> TRUE, text |-> <<cp>> \o rest.text]

\* print_prediction with a fault: the labels are not cut at the length.
print_prediction_NoSlice(prediction, params, stream, stdout) ==
  LET labels == prediction.labels
      sent == BytesJoin(<<32>>, labels)
      text == Utf8Decode(sent)
      target == IF stream = None THEN stdout ELSE stream
  IN IF ~ text.ok
     THEN [status |-> "UnicodeDecodeError", written |-> target,
           prediction |-> prediction, ret |-> None]
     ELSE LET w == print(text.text, stream, stdout)
          IN [status |-> w.status, written |-> w.written,
              prediction |-> prediction, ret |-> None]

\* print_prediction: the stream written to (stream, or sys.stdout when stream
\* is None) and the prediction after the call.
print_prediction(prediction, params, stream, stdout) ==
  LET labels == SliceTo(prediction.labels, prediction.length)
      sent == BytesJoin(<<32>>, labels)
      text == Utf8Decode(sent)
      target == IF stream = None THEN stdout ELSE stream
  IN IF ~ text.ok
     THEN [status |-> "UnicodeDecodeError", written |-> target,
           prediction |-> prediction, ret |-> None]
     ELSE LET w == print(text.text, stream, stdout)
          IN [status |-> w.status, written |-> w.written,
              prediction |-> prediction, ret |-> None]

\* ------------------------------------------------------------ life cycle
Init ==
  /\ \E e \in Encoders, k \in Keys, c \in BOOLEAN :
       self = SequenceTagger("inputter", e, k, c)
  /\ inputter_metadata = <<>>
  /\ variables = {}
  /\ transitions_used = {}
  /\ call = [op |-> "__init__", status |-> "ok"]
  /\ feed = None
  /\ fetched = None

\* _initialize, on a tagger that was or was not initialized before.
Initialize(metadata) ==
  /\ LET r == _initialize(self, metadata)
     IN /\ self' = r.self
        /\ inputter_metadata' = r.inputter_metadata
        /\ call' = [op |-> "_initialize", status |-> r.status,
                    metadata |-> metadata]
  /\ UNCHANGED <<variables, transitions_used, feed, fetched>>

\* The framework builds every mode's graph afresh.
NewGraph ==
  /\ variables # {}
  /\ variables' = {}
  /\ call' = [op |-> "Graph", status |-> "ok"]
  /\ UNCHANGED <<self, inputter_metadata, transitions_used, feed, fetched>>

Build(mode) ==
  /\ LET r == _build(self, variables, FeaturesTensor, LabelsTensor, Params,
                     mode, Config)
     IN /\ self' = r.self
        /\ variables' = r.store
        /\ transitions_used' = transitions_used \cup r.used
        /\ call' = IF r.status = "ok"
                   THEN [op |-> "_build", status |-> r.status, mode |-> mode,
                         logits |-> r.logits, predictions |-> r.predictions,
                         used |-> r.used]
                   ELSE [op |-> "_build", status |-> r.status, mode |-> mode,
                         used |-> r.used]
  /\ UNCHANGED <<inputter_metadata, feed, fetched>>

\* The label-axis sizes of the logits tensors: the sizes of the vocabularies.
OutputsUnits == {Len(FileSystem[p]) : p \in DOMAIN FileSystem}

\* The outputs _compute_loss is handed: a logits tensor some _build returned,
\* in whatever mode and under whatever vocabulary.  The call asks nothing of
\* the tagger's initialization or of the graph.
Outputs(obj) ==
  {DenseOutputs(Encoded(obj, FeaturesTensor, mode, Config).outputs,
                DenseScope, n) :
     n \in OutputsUnits, mode \in ModeKeys}

ComputeLoss(outputs) ==
  /\ LET r == _compute_loss(self, variables, FeaturesTensor, LabelsTensor,
                            outputs)
     IN /\ self' = r.self
        /\ variables' = r.store
        /\ transitions_used' = transitions_used \cup r.used
        /\ call' = IF r.status = "ok"
                   THEN [op |-> "_compute_loss", status |-> r.status,
                         outputs |-> outputs, loss |-> r.loss,
                         used |-> r.used]
                   ELSE [op |-> "_compute_loss", status |-> r.status,
                         outputs |-> outputs, used |-> r.used]
  /\ UNCHANGED <<inputter_metadata, feed, fetched>>

GetServingInputReceiver ==
  /\ call' = [op |-> "_get_serving_input_receiver", status |-> "ok",
              ret |-> _get_serving_input_receiver(self)]
  /\ UNCHANGED <<self, inputter_metadata, variables, transitions_used, feed,
                 fetched>>

GetLabelsLength ==
  /\ call' = [op |-> "_get_labels_length", status |-> "ok",
              ret |-> _get_labels_length(LabelsTensor)]
  /\ UNCHANGED <<self, inputter_metadata, variables, transitions_used, feed,
                 fetched>>

GetFeaturesBuilder ==
  /\ LET r == _get_features_builder(self, "features.txt")
     IN /\ self' = r.self
        /\ call' = [op |-> "_get_features_builder", status |-> r.status,
                    ret |-> r.ret]
  /\ UNCHANGED <<inputter_metadata, variables, transitions_used, feed, fetched>>

GetLabelsBuilder ==
  /\ LET r == _get_labels_builder(self, "labels.txt")
     IN /\ self' = r.self
        /\ call' = IF r.status = "ok"
                   THEN [op |-> "_get_labels_builder", status |-> r.status,
                         ret |-> r.ret]
                   ELSE [op |-> "_get_labels_builder", status |-> r.status]
  /\ UNCHANGED <<inputter_metadata, variables, transitions_used, feed, fetched>>

PrintPrediction(prediction, stream, stdout) ==
  /\ LET r == print_prediction(prediction, None, stream, stdout)
     IN call' = [op |-> "print_prediction", status |-> r.status,
                 prediction |-> prediction, stream |-> stream,
                 stdout |-> stdout,
                 prediction_after |-> r.prediction, written |-> r.written,
                 ret |-> r.ret]
  /\ UNCHANGED <<self, inputter_metadata, variables, transitions_used, feed,
                 fetched>>

\* The predictions printed in the life cycle: one label of each kind.
\* SpecPrint takes every prediction within the bounds.
PrintedPredictions == {[length |-> 1, labels |-> <<l>>] : l \in ByteLabels}

Next ==
  \/ \E metadata \in Metadatas : Initialize(metadata)
  \/ NewGraph
  \/ \E mode \in ModeKeys : Build(mode)
  \/ \E outputs \in Outputs(self) : ComputeLoss(outputs)
  \/ GetServingInputReceiver
  \/ GetLabelsLength
  \/ GetFeaturesBuilder
  \/ GetLabelsBuilder
  \/ \E prediction \in PrintedPredictions, a \in StreamArguments :
       PrintPrediction(prediction, a.stream, a.stdout)

Spec == Init /\ [][Next]_vars

\* ------------------------------------------------- printing predictions
NextPrint ==
  \E prediction \in FetchedPredictions, a \in StreamArguments :
    PrintPrediction(prediction, a.stream, a.stdout)

SpecPrint == Init /\ [][NextPrint]_vars

\* ------------------------------------------------------- a session run
\* Tensors have values once a batch is fed.  A batch of size B holds the
\* lengths inputter.get_length reports (1..MaxTime each); the padded time
\* axis is the longest of them.  Indices start at 0 as in TensorFlow.
Max(S) == CHOOSE x \in S : \A y \in S : y <= x

Range(f) == {f[i] : i \in DOMAIN f}

RECURSIVE SumTo(_, _)
\* f[0] + ... + f[n-1]
SumTo(f, n) == IF n = 0 THEN 0 ELSE f[n - 1] + SumTo(f, n - 1)

\* The encoder's output sequence lengths: kept, or halved (rounded up).
EncoderLengths(encoder, lengths) ==
  IF encoder = "pyramidal"
  THEN [b \in DOMAIN lengths |-> (lengths[b] + 1) \div 2]
  ELSE lengths

\* A float32 value of a run: whole + tiny * eps, where eps is a magnitude
\* float32 holds next to zero and loses next to one (1e-17, say).  A value
\* with a whole part has no tiny part.
Float(whole, tiny) == [whole |-> whole, tiny |-> tiny]

\* a <= b
FloatLeq(a, b) ==
  a.whole < b.whole \/ (a.whole = b.whole /\ a.tiny <= b.tiny)

\* a + b, rounded to float32: next to a whole sum the tiny parts are lost.
FloatAdd(a, b) ==
  IF a.whole + b.whole # 0
  THEN Float(a.whole + b.whole, 0)
  ELSE Float(0, a.tiny + b.tiny)

\* tf.layers.dense on inputs of depth 1: kernel[k] * x + bias[k] per position.
\* The kernel and the inputs are whole; the bias is bias[k] * eps.
Dense(x, kernel, bias, units) ==
  [b \in DOMAIN x |->
     [t \in DOMAIN x[b] |->
        [k \in 0..(units - 1) |->
           FloatAdd(Float(kernel[k] * x[b][t], 0), Float(0, bias[k]))]]]

\* exp(-c) for c = 0, 1, ... in ten-thousandths, rounded to the nearest.
ExpNeg(c) == <<10000, 3679, 1353, 498, 183>>[c + 1]

\* tf.nn.softmax over the last axis, in ten-thousandths: the kernel shifts the
\* scores by their maximum, exponentiates, and divides by the sum.  The
\* exponential of a difference of tiny parts rounds to 1: scores that differ
\* by less than float32 resolves get the same probability.
Softmax(x) ==
  [b \in DOMAIN x |->
     [t \in DOMAIN x[b] |->
        LET v == x[b][t]
            hi == CHOOSE m \in Range(v) : \A y \in Range(v) : FloatLeq(y, m)
            e == [k \in DOMAIN v |-> ExpNeg(hi.whole - v[k].whole)]
            total == SumTo(e, Cardinality(DOMAIN v))
        IN [k \in DOMAIN v |-> (e[k] * 10000 + total \div 2) \div total]]]

\* The index a kernel picks among the maxima of v: TensorFlow leaves the
\* choice among ties open; a kernel takes the lowest or the highest.
PickMax(v, tie) ==
  LET best == {k \in DOMAIN v : \A j \in DOMAIN v : v[j] <= v[k]}
  IN IF tie = "lowest"
     THEN CHOOSE k \in best : \A j \in best : k <= j
     ELSE CHOOSE k \in best : \A j \in best : j <= k

\* tf.argmax of a rank-3 tensor over axis 2 (labels) or axis 1 (time).
ArgMax(x, axis, tie) ==
  IF axis = 2
  THEN [b \in DOMAIN x |-> [t \in DOMAIN x[b] |-> PickMax(x[b][t], tie)]]
  ELSE [b \in DOMAIN x |->
          [k \in DOMAIN x[b][0] |->
             PickMax([t \in DOMAIN x[b] |-> x[b][t][k]], tie)]]

\* index_to_string_table_from_file(file, vocab_size).lookup(ids): the line
\* of that index among the first vocab_size lines, "UNK" for any other id.
Lookup(vocabulary_file, vocab_size, ids) ==
  LET lines == FileSystem[vocabulary_file]
  IN [b \in DOMAIN ids |->
        [t \in DOMAIN ids[b] |->
           IF ids[b][t] \in 0..(vocab_size - 1) /\ ids[b][t] < Len(lines)
           THEN lines[ids[b][t] + 1]
           ELSE "UNK"]]

\* The value of tensor t when env is fed.  The encoder's outputs and the CRF
\* primitive's log-likelihoods are values of the environment.
RECURSIVE Eval(_, _)
Eval(t, env) ==
  CASE t.op = "features" -> env.features
    [] t.op = "inputter.get_length" -> Eval(t.args[1], env).length
    [] t.op = "inputter.transform_data" -> Eval(t.args[1], env)
    [] t.op = "encoder.outputs" -> env.encoder_outputs
    [] t.op = "encoder.sequence_length" ->
         EncoderLengths(t.name, Eval(t.args[2], env))
    [] t.op = "dense" ->
         Dense(Eval(t.args[1], env), env.kernel, env.bias, t.dims[1])
    [] t.op = "softmax" -> Softmax(Eval(t.args[1], env))
    [] t.op = "argmax" -> ArgMax(Eval(t.args[1], env), t.dims[1], env.tie)
    [] t.op = "index_to_string_table.lookup" ->
         Lookup(t.name, t.dims[1], Eval(t.args[1], env))
    [] t.op = "crf_log_likelihood" -> env.log_likelihood
    [] t.op = "neg" ->
         LET x == Eval(t.args[1], env) IN [i \in DOMAIN x |-> 0 - x[i]]
    [] t.op = "reduce_mean" ->
         LET x == Eval(t.args[1], env)
         IN [num |-> SumTo(x, Cardinality(DOMAIN x)),
             den |-> Cardinality(DOMAIN x)]

\* The lengths of the batches fed.
BatchLengths == UNION {[0..(B - 1) -> 1..MaxTime] : B \in 1..MaxBatch}

\* The values an encoder output and a kernel weight take, and the biases in
\* units of eps.
EncoderValues == {0, 1}
KernelValues == {-1, 1}
BiasValues == {0, 1}

\* The encoder outputs of a batch: positions past an example's output length
\* are padding and hold zeros.
EncoderOutputs(lengths) ==
  LET T == Max(Range(lengths))
  IN {x \in [DOMAIN lengths -> [0..(T - 1) -> EncoderValues]] :
        \A b \in DOMAIN lengths :
          \A t \in 0..(T - 1) : t >= lengths[b] => x[b][t] = 0}

\* The biases of a layer of n units: all zero but, at most, the last.
Biases(n) ==
  {c \in [0..(n - 1) -> BiasValues] : \A k \in 0..(n - 2) : c[k] = 0}

\* A batch fed to a run that fetches (logits, predictions).
PredictionFeed(lengths, x, w, c, tie) ==
  [features |-> [length |-> lengths],
   encoder_outputs |-> x, kernel |-> w, bias |-> c, tie |-> tie]

\* A batch fed to a run that fetches the loss.
LossFeed(lengths, ll) ==
  [features |-> [length |-> lengths], log_likelihood |-> ll]

\* The order in which a kernel may settle ties.
TieBreaks == {"lowest", "highest"}

\* session.run of the tensors the last _build returned.
RunPredictions(env) ==
  /\ feed' = env
  /\ fetched' = [logits |-> Eval(call.logits, env),
                 predictions |->
                   [length |-> Eval(call.predictions.items.length, env),
                    labels |-> Eval(call.predictions.items.labels, env)]]
  /\ UNCHANGED <<self, inputter_metadata, variables, transitions_used, call>>

\* session.run of the loss the last _compute_loss returned.
RunLoss(env) ==
  /\ feed' = env
  /\ fetched' = [loss |-> Eval(call.loss, env)]
  /\ UNCHANGED <<self, inputter_metadata, variables, transitions_used, call>>

\* A tagger the framework has initialized.
InitRun ==
  /\ \E e \in Encoders, k \in Keys, c \in BOOLEAN, metadata \in Metadatas :
       LET r == _initialize(SequenceTagger("inputter", e, k, c), metadata)
       IN /\ r.status = "ok"
          /\ self = r.self
          /\ inputter_metadata = r.inputter_metadata
          /\ call = [op |-> "_initialize", status |-> r.status,
                     metadata |-> metadata]
  /\ variables = {}
  /\ transitions_used = {}
  /\ feed = None
  /\ fetched = None

\* One run per behaviour: the graph is declared, then a batch is fed.  The
\* encoder's outputs have the batch's size and the encoder's longest output
\* length; the primitive returns one log-likelihood per example.  The
\* predictions of a CRF tagger are the decoding primitive's and are not
\* evaluated here.
NextRun ==
  \/ feed = None /\ NewGraph
  \/ feed = None /\ \E mode \in ModeKeys : Build(mode)
  \/ feed = None /\ \E outputs \in Outputs(self) : ComputeLoss(outputs)
  \/ /\ feed = None
     /\ call.op = "_build" /\ call.status = "ok"
     /\ call.predictions # None
     /\ ~ self.crf_decoding
     /\ \E lengths \in BatchLengths :
          \E x \in EncoderOutputs(EncoderLengths(self.encoder, lengths)),
             w \in [0..(self.num_labels - 1) -> KernelValues],
             c \in Biases(self.num_labels),
             tie \in TieBreaks :
            RunPredictions(PredictionFeed(lengths, x, w, c, tie))
  \/ /\ feed = None
     /\ call.op = "_compute_loss" /\ call.status = "ok"
     /\ \E lengths \in BatchLengths :
          \E ll \in [DOMAIN lengths -> (0 - MaxLL)..0] :
            RunLoss(LossFeed(lengths, ll))

SpecRun == InitRun /\ [][NextRun]_vars

\* =================================================================== claims
\* The label count of the vocabulary file, counted from the file itself.
LinesOf(path) == Len(FileSystem[path])

\* The six attributes the tagger holds.
TaggerFields ==
  {"inputter", "encoder", "labels_vocabulary_file_key", "crf_decoding",
   "labels_vocabulary_file", "num_labels"}

\* ------------------------------------------------------------------- C1
\* C1 (as claimed): with crf_decoding disabled, every _compute_loss call
\* completes without error and returns the masked sequence loss of the
\* outputs passed to that call, the labels and the length the inputter
\* derives from the features.
C1_MaskedLossOfOutputs ==
  (call.op = "_compute_loss" /\ ~ self.crf_decoding)
    => /\ call.status = "ok"
       /\ call.loss = masked_sequence_loss(
                        call.outputs, LabelsTensor,
                        Node("inputter.get_length", <<FeaturesTensor>>,
                             self.inputter, <<>>))

\* ------------------------------------------------------------------- C2
\* C2: a _build call in TRAIN mode uses no decoder and, when it returns,
\* returns None for the predictions, for either setting of crf_decoding; a
\* _build call that returns in any other mode returns a dictionary with
\* exactly the keys "length" and "labels".
C2_PredictionsOnlyOutsideTraining ==
  call.op = "_build" =>
    /\ call.mode = TRAIN => call.used = {}
    /\ (call.mode = TRAIN /\ call.status = "ok")
         => (call.predictions = None /\ call.logits.op = "dense")
    /\ (call.mode # TRAIN /\ call.status = "ok")
         => /\ call.predictions.type = "dict"
            /\ DOMAIN call.predictions.items = {"length", "labels"}

C2_Witness ==
  /\ call.op = "_build" /\ call.status = "ok"
  /\ call.mode = TRAIN
  /\ self.crf_decoding
  /\ call.predictions = None

\* ------------------------------------------------------------------- C3
\* C3 (as claimed): with crf_decoding disabled, at every batch element and
\* timestep of a run of the graph a non-TRAIN _build declared, the label
\* string fetched is the vocabulary entry of an index whose logit is the
\* largest of that position.
C3_GreedyLabelIsArgMaxOfLogits ==
  (feed # None /\ call.op = "_build") =>
    LET logits == fetched.logits
        strings == fetched.predictions.labels
        lines == FileSystem[self.labels_vocabulary_file]
    IN /\ DOMAIN strings = DOMAIN logits
       /\ \A b \in DOMAIN logits :
            /\ DOMAIN strings[b] = DOMAIN logits[b]
            /\ \A t \in DOMAIN logits[b] :
                 \E k \in 0..(self.num_labels - 1) :
                   /\ \A j \in 0..(self.num_labels - 1) :
                        FloatLeq(logits[b][t][j], logits[b][t][k])
                   /\ strings[b][t] = lines[k + 1]

\* C3 (amended): the label string fetched is the vocabulary entry of an
\* index whose logit is the largest of that position or within float32
\* rounding of the largest: the arg-max is taken of the softmax, which gives
\* logits it cannot tell apart the same probability.
C3_GreedyLabelIsArgMaxUpToRounding ==
  (feed # None /\ call.op = "_build") =>
    LET logits == fetched.logits
        strings == fetched.predictions.labels
        lines == FileSystem[self.labels_vocabulary_file]
    IN /\ DOMAIN strings = DOMAIN logits
       /\ \A b \in DOMAIN logits :
            /\ DOMAIN strings[b] = DOMAIN logits[b]
            /\ \A t \in DOMAIN logits[b] :
                 \E k \in 0..(self.num_labels - 1) :
                   /\ \A j \in 0..(self.num_labels - 1) :
                        \/ FloatLeq(logits[b][t][j], logits[b][t][k])
                        \/ logits[b][t][j].whole = logits[b][t][k].whole
                   /\ strings[b][t] = lines[k + 1]

C3_Witness ==
  /\ feed # None /\ call.op = "_build"
  /\ self.num_labels = 3
  /\ \E b \in DOMAIN fetched.logits :
       /\ DOMAIN fetched.logits[b] = 0..1
       /\ fetched.predictions.labels[b][0] = "I"
       /\ fetched.logits[b][0] = [k \in 0..2 |->
                                    IF k = 2 THEN Float(1, 0) ELSE Float(0 - 1, 0)]
       /\ fetched.predictions.labels[b][1] = "O"
       /\ fetched.logits[b][1] = [k \in 0..2 |->
                                    IF k = 2 THEN Float(0, 1) ELSE Float(0, 0)]

\* ------------------------------------------------------------------- C4
\* C4: with crf_decoding enabled, the loss _compute_loss returns is the mean
\* of the negated CRF log-likelihood of (the outputs passed to the call, the
\* labels cast to int32, the length the inputter derives from the features,
\* the transition matrix); evaluated on a batch it is minus the sum of the
\* per-example log-likelihoods over the batch size, and the lengths the
\* primitive sees are the inputter's, not the encoder's.
C4_CrfLossIsNegativeMeanLogLikelihood ==
  (call.op = "_compute_loss" /\ call.status = "ok" /\ self.crf_decoding) =>
    LET ll == call.loss.args[1].args[1]
    IN /\ call.loss.op = "reduce_mean"
       /\ call.loss.args[1].op = "neg"
       /\ ll.op = "crf_log_likelihood"
       /\ ll.args[1] = call.outputs
       /\ ll.args[2].op = "cast" /\ ll.args[2].name = "int32"
       /\ ll.args[2].args = <<LabelsTensor>>
       /\ ll.args[3].op = "inputter.get_length"
       /\ ll.args[3].args = <<FeaturesTensor>>
       /\ ll.args[4].op = "variable"
       /\ ll.args[4].dims = <<LastDim(call.outputs), LastDim(call.outputs)>>
       /\ feed # None =>
            LET B == Cardinality(DOMAIN feed.log_likelihood)
            IN /\ fetched.loss.den = B
               /\ fetched.loss.num + SumTo(feed.log_likelihood, B) = 0
               /\ Eval(ll.args[3], feed) = feed.features.length

C4_Witness ==
  /\ feed # None /\ call.op = "_compute_loss" /\ call.status = "ok"
  /\ self.encoder = "pyramidal"
  /\ DOMAIN feed.log_likelihood = 0..1
  /\ feed.log_likelihood[0] = 0 - 1
  /\ feed.log_likelihood[1] = 0 - 2
  /\ feed.features.length[0] = 2
  /\ fetched.loss = [num |-> 3, den |-> 2]

\* ------------------------------------------------------------------- C5
\* The text of the first n labels, each decoded on its own, with one space
\* between neighbours.
RECURSIVE SpacedText(_, _)
SpacedText(labels, n) ==
  IF n = 0 THEN <<>>
  ELSE IF n = 1 THEN Utf8Decode(labels[1]).text
  ELSE SpacedText(labels, n - 1) \o <<32>> \o Utf8Decode(labels[n]).text

\* The stream a print_prediction call writes to.
Target == IF call.stream = None THEN call.stdout ELSE call.stream

\* C5 (as claimed): given a prediction of length L with at least L labels,
\* print_prediction writes exactly one line, the first L labels joined by
\* single spaces and decoded as UTF-8, leaves the prediction as it was and
\* returns nothing.
C5_PrintsFirstLabels ==
  (call.op = "print_prediction"
     /\ call.prediction.length <= Len(call.prediction.labels))
    => /\ call.status = "ok"
       /\ call.written.text =
            Target.text
              \o SpacedText(call.prediction.labels, call.prediction.length)
              \o <<10>>
       /\ call.prediction_after = call.prediction
       /\ call.ret = None

\* C5 (amended): the same, provided each of the first L labels is valid
\* UTF-8 and the encoding of the stream (of sys.stdout when no stream is
\* given) holds the decoded text; otherwise the decoding error, or else the
\* encoding error, propagates and nothing is written.  Labels at index L and
\* beyond never matter, the line holds no other line break, the prediction
\* is left as it was and nothing is returned.
C5_PrintsFirstLabelsWhenEncodable ==
  (call.op = "print_prediction"
     /\ call.prediction.length <= Len(call.prediction.labels))
    => LET L == call.prediction.length
           text == SpacedText(call.prediction.labels, L)
           utf8 == \A i \in 1..L : Utf8Decode(call.prediction.labels[i]).ok
           held == \/ Target.encoding = "utf-8"
                   \/ \A i \in 1..Len(text) : text[i] < 128
       IN /\ call.prediction_after = call.prediction
          /\ call.ret = None
          /\ call.written.encoding = Target.encoding
          /\ (utf8 /\ held)
               => /\ call.status = "ok"
                  /\ call.written.text = Target.text \o text \o <<10>>
                  /\ \A i \in 1..Len(text) : text[i] # 10
          /\ ~ utf8
               => /\ call.status = "UnicodeDecodeError"
                  /\ call.written = Target
          /\ (utf8 /\ ~ held)
               => /\ call.status = "UnicodeEncodeError"
                  /\ call.written = Target

C5_Witness ==
  /\ call.op = "print_prediction" /\ call.status = "ok"
  /\ call.prediction = [length |-> 2,
                        labels |-> <<(<<195, 169>>), (<<79>>)>>]
  /\ call.stream = TextStream("utf-8", <<120, 10>>)
  /\ call.written = TextStream("utf-8", <<120, 10, 233, 32, 79, 10>>)

\* ------------------------------------------------------------------- C6
\* C6: a successful _initialize sets num_labels to the number of lines of the
\* vocabulary file and nothing but a successful _initialize changes it; every
\* later _build and _get_labels_builder uses that one size: the projection
\* layer has num_labels outputs, a transition matrix _build creates is
\* num_labels x num_labels, and the string-to-id and id-to-string tables are
\* both built from labels_vocabulary_file with vocab_size num_labels.
C6_LabelSpaceSizeAgrees ==
  /\ []((call.op = "_initialize" /\ call.status = "ok")
          => self.num_labels
               = LinesOf(call.metadata[self.labels_vocabulary_file_key]))
  /\ [][~ (call'.op = "_initialize" /\ call'.status = "ok")
          => /\ ("num_labels" \in DOMAIN self') = ("num_labels" \in DOMAIN self)
             /\ "num_labels" \in DOMAIN self
                  => self'.num_labels = self.num_labels]_vars
  /\ []((call.op = "_build" /\ call.status = "ok")
          => LET N == self.num_labels
             IN /\ call.logits.op = "dense" /\ call.logits.dims = <<N>>
                /\ [name |-> call.logits.name \o "/kernel", shape |-> <<1, N>>]
                     \in variables
                /\ [name |-> call.logits.name \o "/bias", shape |-> <<N>>]
                     \in variables
                /\ \A u \in call.used : u.shape = <<N, N>>
                /\ call.predictions # None
                     => /\ call.predictions.items.labels.op
                             = "index_to_string_table.lookup"
                        /\ call.predictions.items.labels.name
                             = self.labels_vocabulary_file
                        /\ call.predictions.items.labels.dims = <<N>>)
  /\ []((call.op = "_get_labels_builder" /\ call.status = "ok")
          => /\ call.ret.process_fn.op = "index_table.lookup"
             /\ call.ret.process_fn.name = self.labels_vocabulary_file
             /\ call.ret.process_fn.dims = <<self.num_labels>>)

C6_Witness ==
  /\ call.op = "_build" /\ call.status = "ok" /\ call.mode = EVAL
  /\ self.labels_vocabulary_file = "tags3"
  /\ call.used = {[by |-> "crf_decode", name |-> "transitions",
                   shape |-> <<3, 3>>, num_tags |-> 3]}
  /\ call.logits.dims = <<3>>
  /\ [name |-> "generator/dense/kernel", shape |-> <<1, 3>>] \in variables
  /\ \E u \in transitions_used : u.shape = <<2, 2>>

\* ------------------------------------------------------------------- C7
\* C7: with crf_decoding disabled no call creates or uses a transition
\* parameter (the graph holds the projection layers' variables only); with crf_decoding enabled a non-TRAIN _build that returns has
\* created "transitions" of shape num_labels x num_labels and decodes with it
\* over the logits and the encoder's output sequence length, which is also
\* the length of the predictions.
C7_TransitionsOnlyWithCrf ==
  /\ ~ self.crf_decoding
       => /\ \A v \in variables :
               v.name \in {DenseScope \o "/kernel", DenseScope \o "/bias"}
          /\ transitions_used = {}
  /\ (call.op = "_build" /\ call.status = "ok" /\ call.mode # TRAIN
        /\ self.crf_decoding)
       => LET N == self.num_labels
              ids == call.predictions.items.labels.args[1]
              tags == ids.args[1]
          IN /\ [name |-> "transitions", shape |-> <<N, N>>] \in variables
             /\ ids.op = "cast" /\ ids.name = "int64"
             /\ tags.op = "crf_decode.tags"
             /\ tags.args[1] = call.logits
             /\ tags.args[2] = Node("variable", <<>>, "transitions", <<N, N>>)
             /\ tags.args[3].op = "encoder.sequence_length"
             /\ tags.args[3].name = self.encoder
             /\ call.predictions.items.length = tags.args[3]

C7_Witness ==
  /\ call.op = "_build" /\ call.status = "ok" /\ call.mode = PREDICT
  /\ self.crf_decoding
  /\ self.encoder = "pyramidal"
  /\ variables = {[name |-> "generator/dense/kernel", shape |-> <<1, 2>>],
                  [name |-> "generator/dense/bias", shape |-> <<2>>],
                  [name |-> "transitions", shape |-> <<2, 2>>]}

\* ------------------------------------------------------------------- C8
\* C8: the decoder of _build and the log-likelihood of _compute_loss are
\* given one transition parameter: every use is of the variable of one name,
\* and uses over logits of the same label-axis size (a TRAIN _build and the
\* loss of its logits, then a non-TRAIN _build of the same tagger) are of one
\* shape, whatever graphs the calls were made in.
C8_OneTransitionParameter ==
  \A u \in transitions_used, v \in transitions_used :
    /\ u.name = v.name
    /\ u.num_tags = v.num_tags => u.shape = v.shape

C8_Witness ==
  /\ call.op = "_build" /\ call.status = "ok" /\ call.mode # TRAIN
  /\ \E u \in transitions_used, v \in call.used :
       /\ u.by = "crf_log_likelihood" /\ v.by = "crf_decode"
       /\ u.num_tags = v.num_tags

\* ------------------------------------------------------------------- C9
\* C9: no call other than _initialize changes, adds or removes any of the
\* six attributes of the tagger, and a _build made while num_labels is not
\* yet defined fails.
C9_FieldsSetOnlyByInitialize ==
  /\ [][call'.op # "_initialize"
          => \A f \in TaggerFields :
               /\ (f \in DOMAIN self') = (f \in DOMAIN self)
               /\ f \in DOMAIN self => self'[f] = self[f]]_vars
  /\ []((call.op = "_build" /\ "num_labels" \notin DOMAIN self)
          => call.status = "AttributeError")

C9_Witness ==
  /\ call.op = "_get_labels_builder" /\ call.status = "ok"
  /\ transitions_used # {}
  /\ self.num_labels = 3

\* ------------------------------------------------------------------ C10
\* C10 (as claimed): a failed _initialize raises KeyError exactly when the
\* metadata has no entry at the key and the line counter's error exactly when
\* the file is absent; num_labels is then not defined, and the inputter has
\* been initialized with that metadata.
C10_FailedInitializeSetsNoCount ==
  call.op = "_initialize" =>
    LET key == self.labels_vocabulary_file_key
    IN /\ inputter_metadata = <<call.metadata>>
       /\ (call.status = "KeyError") = (key \notin DOMAIN call.metadata)
       /\ (call.status = "IOError")
            = (key \in DOMAIN call.metadata
                 /\ call.metadata[key] \notin DOMAIN FileSystem)
       /\ call.status \in {"ok", "KeyError", "IOError"}
       /\ call.status # "ok" => "num_labels" \notin DOMAIN self

\* C10 (amended): the same errors and the same inputter, and a failed
\* _initialize leaves num_labels as it found it: not defined on a tagger that
\* no _initialize has succeeded on, the earlier count otherwise.
C10_FailedInitializeLeavesCount ==
  /\ [](call.op = "_initialize" =>
          LET key == self.labels_vocabulary_file_key
          IN /\ inputter_metadata = <<call.metadata>>
             /\ (call.status = "KeyError") = (key \notin DOMAIN call.metadata)
             /\ (call.status = "IOError")
                  = (key \in DOMAIN call.metadata
                       /\ call.metadata[key] \notin DOMAIN FileSystem)
             /\ call.status \in {"ok", "KeyError", "IOError"})
  /\ [][(call'.op = "_initialize" /\ call'.status # "ok")
          => /\ ("num_labels" \in DOMAIN self') = ("num_labels" \in DOMAIN self)
             /\ "num_labels" \in DOMAIN self
                  => self'.num_labels = self.num_labels]_vars

C10_Witness ==
  /\ call.op = "_initialize" /\ call.status = "IOError"
  /\ self.labels_vocabulary_file = "missing"
  /\ "num_labels" \in DOMAIN self /\ self.num_labels = 2
  /\ inputter_metadata = <<[labels_vocabulary |-> "missing"]>>

====
